---- MODULE Spec2Model ----
(***************************************************************************)
(* A model of pypacker's generic packet engine (src/pypacker/pypacker.py)  *)
(* and of the NewProtocol example (src/examples/examples_new_protocol.py). *)
(*                                                                         *)
(* Reading of the source.  Every method is translated statement by         *)
(* statement.  An attribute assignment "x.k = v" on a Packet runs          *)
(* Packet.__setattribute__ (its docstring: 'Set value of an attribute a    *)
(* via "a.k=v"'); object.__setattr__(x, k, v) stores without running it    *)
(* (the source uses it "to avoid circular dependencies").  The slot        *)
(* initialisations of the constructor (lines 153-161) are plain stores:    *)
(* __setattribute__ reads the old value of the slot and bodytypename,      *)
(* which do not exist yet.  Names that do not resolve are read as the      *)
(* operand they stand for: type_instance (line 272) is obj, the bare       *)
(* __update_fmtstr() is self.__update_fmtstr(), t.__hdr_fmtstr__ (line     *)
(* 255) is the string just built, object.__set_attr/__setattribute__       *)
(* are object.__setattr__, "x not None" is "x is not None", and the stub    *)
(* format.append() (line 332) does nothing.  Which list                    *)
(* is indexed, which names are filtered, which table is written and in     *)
(* which order statements run is kept exactly as written.                  *)
(*                                                                         *)
(* Values are integers.  A byte string is a sequence of 0..255, a format   *)
(* string a sequence of one-character strings.                             *)
(***************************************************************************)
EXTENDS Integers, Sequences, FiniteSets, TLC

\* Python's None as a field value, default or callback.
None == -1
\* An attribute that was never stored: reading it raises AttributeError.
Unset == -2
\* self.bodytypename = None
NoneStr == "None"
\* The name under which a body of this class is attached:
\* obj.__class__.__name__.lower().
TypeName == "newprotocol"

\* Bound on the number of operations of one run.
MaxOps == 3

\* The instances a run works with, and the layer order in which they compose.
Inst == {1, 2}

--------------------------------------------------------------------------
(* Python's struct module, for the codes the schema uses.                 *)

ByteOrders == {">", "<"}
Codes == {"B", "H"}

\* struct.calcsize of one code.
Width(c) == IF c = "B" THEN 1 ELSE 2

\* A format string struct accepts: a byte order first, codes after it.
ValidFmt(fmt) ==
    /\ Len(fmt) >= 1
    /\ fmt[1] \in ByteOrders
    /\ \A p \in 2..Len(fmt) : fmt[p] \in Codes

RECURSIVE SumWidth(_)
SumWidth(cs) == IF cs = <<>> THEN 0 ELSE Width(Head(cs)) + SumWidth(Tail(cs))

\* struct.calcsize(fmt); Unset stands for struct.error (bad char in format).
calcsize(fmt) == IF ValidFmt(fmt) THEN SumWidth(Tail(fmt)) ELSE Unset

\* One value in the range of its code.
Fits(c, v) == v >= 0 /\ v < (IF c = "B" THEN 256 ELSE 65536)

\* Big-endian bytes of one value.
PackVal(bo, c, v) ==
    IF c = "B" THEN <<v>>
    ELSE IF bo = ">" THEN <<v \div 256, v % 256>> ELSE <<v % 256, v \div 256>>

RECURSIVE PackAll(_, _, _)
PackAll(bo, cs, vs) ==
    IF cs = <<>> THEN <<>>
    ELSE PackVal(bo, Head(cs), Head(vs)) \o PackAll(bo, Tail(cs), Tail(vs))

\* struct.pack(fmt, *vals): ok is FALSE for struct.error.
struct_pack(fmt, vals) ==
    IF /\ ValidFmt(fmt)
       /\ Len(fmt) - 1 = Len(vals)
       /\ \A p \in 1..Len(vals) : Fits(fmt[p + 1], vals[p])
    THEN [ok |-> TRUE, b |-> PackAll(fmt[1], Tail(fmt), vals)]
    ELSE [ok |-> FALSE, b |-> <<>>]

RECURSIVE UnpackAll(_, _, _)
UnpackAll(bo, cs, buf) ==
    IF cs = <<>> THEN <<>>
    ELSE IF Head(cs) = "B"
         THEN <<buf[1]>> \o UnpackAll(bo, Tail(cs), Tail(buf))
         ELSE <<IF bo = ">" THEN buf[1] * 256 + buf[2] ELSE buf[2] * 256 + buf[1]>>
              \o UnpackAll(bo, Tail(cs), Tail(Tail(buf)))

\* struct.unpack(fmt, buf): ok is FALSE for struct.error.
struct_unpack(fmt, buf) ==
    IF ValidFmt(fmt) /\ Len(buf) = SumWidth(Tail(fmt))
    THEN [ok |-> TRUE, v |-> UnpackAll(fmt[1], Tail(fmt), buf)]
    ELSE [ok |-> FALSE, v |-> <<>>]

\* buf[:n] and buf[n:]
Take(buf, n) == SubSeq(buf, 1, IF n < Len(buf) THEN n ELSE Len(buf))
Drop(buf, n) == SubSeq(buf, (IF n < Len(buf) THEN n ELSE Len(buf)) + 1, Len(buf))

--------------------------------------------------------------------------
(* The schema and the tables MetaPacket derives from it.                  *)

\* NewProtocol.__hdr__, its fixed-width fields type, idk and hlen.
Hdr == << [name |-> "type", fmt |-> "B", default |-> 18],
          [name |-> "idk",  fmt |-> "H", default |-> None],
          [name |-> "hlen", fmt |-> "H", default |-> 14] >>

\* The name a dynamic field is appended under.
DynName == "opt"
FieldNames == {Hdr[p].name : p \in 1..Len(Hdr)} \cup {DynName}

byte_order == ">"

\* t.__hdr_fields__
MetaFields == [p \in 1..Len(Hdr) |-> Hdr[p].name]
\* [x[1] for x in st if x[2] is not None]
RECURSIVE FmtOfActiveDefaults(_)
FmtOfActiveDefaults(st) ==
    IF st = <<>> THEN <<>>
    ELSE (IF Head(st).default # None THEN <<Head(st).fmt>> ELSE <<>>)
         \o FmtOfActiveDefaults(Tail(st))
\* t.__hdr_fmt__: the byte order, then the formats of the fields whose default
\* is not None.
MetaFmt == <<byte_order>> \o FmtOfActiveDefaults(Hdr)
\* t.__hdr_fmtstr__ and t.__hdr_len__ of the class: never written again.
ClsFmtstr == MetaFmt
ClsLen == calcsize(ClsFmtstr)
\* t.__hdr_defaults__
MetaDefaults == [n \in {Hdr[p].name : p \in 1..Len(Hdr)} |->
                   Hdr[CHOOSE p \in 1..Len(Hdr) : Hdr[p].name = n].default]

--------------------------------------------------------------------------
(* Program state.                                                         *)

VARIABLES
    hdr_fields,     \* the class's __hdr_fields__ list (one list object, shared)
    hdr_fmt,        \* the class's __hdr_fmt__ list (one list object, shared)
    hdr_defaults,   \* the class's __hdr_defaults__ dict (shared)
    obj,            \* the instances: their attributes
    ret,            \* the last operation: its name, receiver, argument, the
                    \* exception it raised ("" for none) and what it returned
    nops            \* operations run so far

vars == <<hdr_fields, hdr_fmt, hdr_defaults, obj, ret, nops>>

\* The state the operations below transform: f, m, d are the shared tables,
\* o the instances.
Cur == [f |-> hdr_fields, m |-> hdr_fmt, d |-> hdr_defaults, o |-> obj]

Ok(s) == [s |-> s, exc |-> "", out |-> <<>>]
Raise(s, e) == [s |-> s, exc |-> e, out |-> <<>>]
Return(s, b) == [s |-> s, exc |-> "", out |-> b]

\* The slots Packet.__init__ stores before anything else; no header field is
\* stored yet.  hlen_au_active is the AUTO_UPDATE switch of hlen.
Blank == [val |-> [n \in FieldNames |-> Unset],
          data |-> <<>>,
          bodytypename |-> NoneStr,
          handler |-> 0,
          callback |-> None,
          packet_changed |-> FALSE,
          fmtstr |-> <<>>,
          len |-> Unset,
          hlen_au_active |-> TRUE]

\* self.__hdr_fmtstr__ and self.__hdr_len__: the instance's own attribute when
\* __update_fmtstr has stored one, the class's otherwise.
HdrFmtstr(o) == IF o.fmtstr = <<>> THEN ClsFmtstr ELSE o.fmtstr
HdrLen(o) == IF o.len = Unset THEN ClsLen ELSE o.len

\* getattr(self, k, None) is not None
Active(o, k) == o.val[k] # None /\ o.val[k] # Unset

--------------------------------------------------------------------------
(* Packet.__update_fmtstr                                                 *)

\* [self.__hdr_fmt__[idx] for idx, f in enumerate(st) if value of f is not None]
\* p is idx + 1, and a Python list index idx is position idx + 1 here, so the
\* entry taken for the field at position p is m[p].
RECURSIVE PickFmt(_, _, _, _)
PickFmt(st, m, o, p) ==
    IF p > Len(st) THEN <<>>
    ELSE (IF Active(o, st[p]) THEN <<m[p]>> ELSE <<>>) \o PickFmt(st, m, o, p + 1)

update_fmtstr(s, i) ==
    LET st == s.f
        o == s.o[i]
    IN  IF \E p \in 1..Len(st) : Active(o, st[p]) /\ p > Len(s.m)
        THEN Raise(s, "IndexError")
        ELSE LET fmtstr == <<byte_order>> \o PickFmt(st, s.m, o, 1)
                 len == calcsize(fmtstr)
             IN  IF len = Unset
                 THEN Raise(s, "struct.error")
                 ELSE Ok([s EXCEPT !.o[i].fmtstr = fmtstr, !.o[i].len = len])

--------------------------------------------------------------------------
(* Packet.__setattribute__                                                *)

Get(o, k) ==
    CASE k = "data" -> o.data
      [] k = "bodytypename" -> o.bodytypename
      [] k = "callback" -> o.callback
      [] k = "hlen_au_active" -> o.hlen_au_active
      [] OTHER -> o.val[k]

Put(o, k, v) ==
    CASE k = "data" -> [o EXCEPT !.data = v]
      [] k = "bodytypename" -> [o EXCEPT !.bodytypename = v]
      [] k = "callback" -> [o EXCEPT !.callback = v]
      [] k = "hlen_au_active" -> [o EXCEPT !.hlen_au_active = v]
      [] OTHER -> [o EXCEPT !.val[k] = v]

\* "x is None" for a value of attribute k
IsNone(k, x) ==
    CASE k \in {"data", "hlen_au_active"} -> FALSE
      [] k = "bodytypename" -> x = NoneStr
      [] OTHER -> x = None

IsUnset(k, x) == k \in FieldNames /\ x = Unset

\* __setattribute__ without line 197: the write is not recorded.
setattribute_unmarked(s, i, k, v) ==
    LET oldval == Get(s.o[i], k)
    IN  IF IsUnset(k, oldval)
        THEN Raise(s, "AttributeError")
        ELSE LET s1 == [s EXCEPT !.o[i] = Put(@, k, v)]
             IN  IF s1.o[i].bodytypename # NoneStr /\ k = "data"
                 THEN Raise(s1, "Error")
                 ELSE IF IsNone(k, v) # IsNone(k, oldval)
                      THEN update_fmtstr(s1, i)
                      ELSE Ok(s1)

setattribute(s, i, k, v) ==
    LET oldval == Get(s.o[i], k)
    IN  IF IsUnset(k, oldval)
        THEN Raise(s, "AttributeError")
        ELSE LET s1 == [s EXCEPT !.o[i] = Put(@, k, v)]
             IN  IF s1.o[i].bodytypename # NoneStr /\ k = "data"
                 THEN Raise(s1, "Error")
                 ELSE LET s2 == [s1 EXCEPT !.o[i].packet_changed = TRUE]
                      IN  IF IsNone(k, v) # IsNone(k, oldval)
                          THEN update_fmtstr(s2, i)
                          ELSE Ok(s2)

--------------------------------------------------------------------------
(* Packet._add_headerfield                                                *)

\* self.__hdr_defaults__[name] = value
DictPut(d, name, value) ==
    [n \in DOMAIN d \cup {name} |-> IF n = name THEN value ELSE d[n]]

add_headerfield(s, i, name, format, value) ==
    LET \* self.__hdr_fields__.append(name): the class's list
        s1 == [s EXCEPT !.f = Append(@, name)]
        \* self.__hdr_fmt__ += format: the class's list is extended in place and
        \* then assigned to the instance, which __setattribute__ records
        s2 == [s1 EXCEPT !.m = Append(@, format), !.o[i].packet_changed = TRUE]
        s3 == [s2 EXCEPT !.d = DictPut(@, name, value)]
        s4 == [s3 EXCEPT !.o[i].val[name] = value]
    IN  IF value # None THEN update_fmtstr(s4, i) ELSE Ok(s4)

--------------------------------------------------------------------------
(* Packet._set_bodyhandler and Packet.__div__                             *)

set_bodyhandler(s, i, j) ==
    LET o == s.o[i]
        had == o.bodytypename # NoneStr
    IN  IF had /\ o.handler = 0
        THEN \* getattr(self, self.bodytypename): no such attribute
             Raise(s, "AttributeError")
        ELSE LET callbackimpl_tmp == IF had THEN s.o[o.handler].callback ELSE None
                 \* delattr(self, self.bodytypename)
                 s1 == IF had THEN [s EXCEPT !.o[i].handler = 0] ELSE s
                 \* self.bodytypename = obj.__class__.__name__.lower()
                 r2 == setattribute(s1, i, "bodytypename", TypeName)
             IN  IF r2.exc # "" THEN r2
                 ELSE LET \* obj.callback = callbackimpl_tmp
                          r3 == setattribute(r2.s, j, "callback", callbackimpl_tmp)
                      IN  IF r3.exc # "" THEN r3
                          ELSE \* object.__setattr__(self, self.bodytypename, obj)
                               Ok([r3.s EXCEPT !.o[i].handler = j])

\* layer1 / v for an instance v
div(s, i, j) == set_bodyhandler(s, i, j)

\* layer1 / v for v of type bytes
div_bytes(s, i, b) == Raise(s, "Error")

--------------------------------------------------------------------------
(* Packet.is_related                                                      *)

\* a.is_related(next) for a = instance i and next = instance j; the result is
\* returned as a one-element sequence.
RECURSIVE is_related(_, _, _)
is_related(s, i, j) ==
    IF s.o[i].bodytypename = NoneStr \/ s.o[j].bodytypename = NoneStr
    THEN Return(s, <<TRUE>>)
    ELSE \* getattr(self, self.bodytypename), getattr(next, next.bodytypename)
         IF s.o[i].handler = 0 \/ s.o[j].handler = 0
         THEN Raise(s, "AttributeError")
         ELSE is_related(s, s.o[i].handler, s.o[j].handler)

--------------------------------------------------------------------------
(* Packet.bin, Packet.pack_hdr                                            *)

\* [getattr(self, k) for k in self.__hdr_fields__ if k is not None]: k is a
\* field name, which is never None
FieldValues(s, i) == [p \in 1..Len(s.f) |-> s.o[i].val[s.f[p]]]

HasUnset(vs) == \E p \in 1..Len(vs) : vs[p] = Unset

\* Packet.bin on instance i.  The call of the body's own bin() is dispatched on
\* the body's class: np says that the instances are used as NewProtocol
\* objects, whose bin is NewProtocol.bin with its default update_auto_fields.
RECURSIVE bin(_, _, _), NewProtocol_bin(_, _, _)
bin(s, i, np) ==
    LET o == s.o[i]
        header_bin == FieldValues(s, i)
    IN  IF HasUnset(header_bin) THEN Raise(s, "AttributeError")
        ELSE IF o.bodytypename = NoneStr THEN Return(s, header_bin \o o.data)
        ELSE IF o.handler = 0 THEN Raise(s, "AttributeError")
        ELSE LET b == IF np THEN NewProtocol_bin(s, o.handler, TRUE)
                      ELSE bin(s, o.handler, np)
             IN  IF b.exc # "" THEN b ELSE Return(b.s, header_bin \o b.out)

\* the values that are not None, in field order
RECURSIVE NotNone(_)
NotNone(vs) ==
    IF vs = <<>> THEN <<>>
    ELSE (IF Head(vs) # None THEN <<Head(vs)>> ELSE <<>>) \o NotNone(Tail(vs))

pack_hdr(s, i) ==
    LET o == s.o[i]
        all == FieldValues(s, i)
    IN  IF HasUnset(all) THEN Raise(s, "AttributeError")
        ELSE LET first == struct_pack(HdrFmtstr(o), all)
             IN  IF first.ok THEN Return(s, first.b)
                 ELSE LET second == struct_pack(HdrFmtstr(o), NotNone(all))
                      IN  IF second.ok THEN Return(s, second.b)
                          ELSE Raise(s, "PackError")

--------------------------------------------------------------------------
(* Packet.unpack, Packet.__init__                                         *)

\* for k, v in zip(names, values): object.__setattr__(self, k, v)
RECURSIVE ZipStore(_, _, _)
ZipStore(o, names, values) ==
    IF names = <<>> \/ values = <<>> THEN o
    ELSE ZipStore([o EXCEPT !.val[Head(names)] = Head(values)],
                  Tail(names), Tail(values))

unpack(s, i, buf) ==
    LET o == s.o[i]
        u == struct_unpack(HdrFmtstr(o), Take(buf, HdrLen(o)))
    IN  IF ~u.ok THEN Raise(s, "struct.error")
        ELSE LET s1 == [s EXCEPT !.o[i] = ZipStore(@, s.f, u.v)]
             IN  \* self.data = buf[self.__hdr_len__:]
                 setattribute(s1, i, "data", Drop(buf, HdrLen(s1.o[i])))

\* An unpack of an extending class (the call flow of the class docstring): it
\* appends a dynamic field and then calls Packet.unpack.
unpack_dyn(s, i, buf, format, value) ==
    LET r == add_headerfield(s, i, DynName, format, value)
    IN  IF r.exc # "" THEN r ELSE unpack(r.s, i, buf)

\* Packet(buf): the constructor's slots, then decode (the unpack of the class,
\* applied to the new instance), then the except clause.  A constructor that
\* raises leaves the name that was to be bound as it was.
init_buf(s, i, buf, r) ==
    LET keep == [r.s EXCEPT !.o[i] = s.o[i]]
    IN  IF r.exc = "struct.error"
        THEN IF Len(buf) < HdrLen(r.s.o[i])
             THEN Raise(keep, "NeedData")
             ELSE Raise(keep, "UnpackError")
        ELSE IF r.exc # "" THEN Raise(keep, r.exc)
        ELSE Ok(r.s)

\* The defaults of every field of __hdr_fields__, copied.
RECURSIVE StoreDefaults(_, _, _)
StoreDefaults(o, names, d) ==
    IF names = <<>> THEN o
    ELSE StoreDefaults([o EXCEPT !.val[Head(names)] = d[Head(names)]], Tail(names), d)

\* Packet(k=v): kw is a sequence of <<k, v>> pairs, empty for Packet().
RECURSIVE StoreKwargs(_, _)
StoreKwargs(o, kw) ==
    IF kw = <<>> THEN o
    ELSE StoreKwargs([o EXCEPT !.val[Head(kw)[1]] = Head(kw)[2]], Tail(kw))

init_kwargs(s, i, kw) ==
    Ok([s EXCEPT !.o[i] = StoreKwargs(StoreDefaults(Blank, s.f, s.d), kw)])

--------------------------------------------------------------------------
(* NewProtocol._update_fields, NewProtocol.bin                            *)

\* self._changed()
changed(o) == o.packet_changed

\* self.header_len: the length of the header as currently laid out
header_len(o) == HdrLen(o)

\* _update_fields without the test of hlen_au_active.
update_fields_ungated(s, i, update_auto_fields) ==
    IF update_auto_fields /\ changed(s.o[i])
    THEN setattribute(s, i, "hlen", header_len(s.o[i]))
    ELSE Ok(s)

update_fields(s, i, update_auto_fields) ==
    IF update_auto_fields /\ changed(s.o[i]) /\ s.o[i].hlen_au_active
    THEN setattribute(s, i, "hlen", header_len(s.o[i]))
    ELSE Ok(s)

\* Packet.bin(self, update_auto_fields=...) as NewProtocol.bin calls it: the
\* update hook of the instance, then Packet.bin.
bin_update_auto_fields(s, i, update_auto_fields) ==
    LET r == update_fields(s, i, update_auto_fields)
    IN  IF r.exc # "" THEN r ELSE bin(r.s, i, TRUE)

\* b"somepadding"
somepadding == <<115, 111, 109, 101, 112, 97, 100, 100, 105, 110, 103>>

NewProtocol_bin(s, i, update_auto_fields) ==
    LET r == bin_update_auto_fields(s, i, update_auto_fields)
    IN  IF r.exc # "" THEN r ELSE Return(r.s, r.out \o somepadding)

--------------------------------------------------------------------------
(* Inputs.                                                                *)

\* Values a client writes to a header field: None deactivates it, 7 fits
\* every code, 258 = 0x0102 needs two bytes.
WriteVals == {None, 7, 258}
\* Raw bodies a client writes.
DataVals == {<<9>>}
\* Callback references a client registers.
Callbacks == {1}
\* Keyword arguments of a constructor call.
Kwargs == {<<>>, <<<<"type", None>>>>, <<<<"idk", 7>>>>}
\* Buffers handed to a constructor: empty, shorter than the header, exactly
\* the header, the header and one body byte.
Bufs == {<<>>, <<18, 0>>, <<18, 0, 14>>, <<18, 0, 14, 9>>}
\* Dynamic fields an extending unpack appends.
DynVals == {None, 7}

\* layer / body pairs: bodies are attached downwards, so a chain is finite
Pairs == {ij \in Inst \X Inst : ij[1] < ij[2]}

\* No instance holds i as its body: the name i can be bound to a new instance.
Free(i) == \A j \in Inst : obj[j].handler # i

\* pack_hdr() followed by the raw body: the bytes of a layer with a raw body.
encode(s, i) ==
    LET r == pack_hdr(s, i)
    IN  IF r.exc # "" THEN r ELSE Return(s, r.out \o s.o[i].data)

--------------------------------------------------------------------------
(* The specification.                                                     *)

Commit(r, op, i) ==
    /\ nops < MaxOps
    /\ hdr_fields' = r.s.f
    /\ hdr_fmt' = r.s.m
    /\ hdr_defaults' = r.s.d
    /\ obj' = r.s.o
    /\ ret' = [op |-> op, self |-> i, exc |-> r.exc, out |-> r.out]
    /\ nops' = nops + 1

Init ==
    /\ hdr_fields = MetaFields
    /\ hdr_fmt = MetaFmt
    /\ hdr_defaults = MetaDefaults
    /\ obj = [i \in Inst |-> StoreDefaults(Blank, MetaFields, MetaDefaults)]
    /\ ret = [op |-> "init", self |-> 0, exc |-> "", out |-> <<>>]
    /\ nops = 0

\* x.k = v for a header field k
SetField(i, k, v) == Commit(setattribute(Cur, i, k, v), "setfield", i)
\* x.data = b
SetData(i, b) == Commit(setattribute(Cur, i, "data", b), "setdata", i)
\* x.callback = c
SetCallback(i, c) == Commit(setattribute(Cur, i, "callback", c), "setcallback", i)
\* x.hlen_au_active = b
SetAuActive(i, b) == Commit(setattribute(Cur, i, "hlen_au_active", b), "setau", i)
AddHeaderfield(i, format, value) ==
    Commit(add_headerfield(Cur, i, DynName, format, value), "add_headerfield", i)
SetBodyhandler(i, j) == Commit(set_bodyhandler(Cur, i, j), "set_bodyhandler", i)
Div(i, j) == Commit(div(Cur, i, j), "div", i)
DivBytes(i, b) == Commit(div_bytes(Cur, i, b), "div_bytes", i)
\* Packet.bin(x)
Bin(i) == Commit(bin(Cur, i, FALSE), "bin", i)
PackHdr(i) == Commit(pack_hdr(Cur, i), "pack_hdr", i)
\* x.bin(update_auto_fields=u) on a NewProtocol
NewProtocolBin(i, u) == Commit(NewProtocol_bin(Cur, i, u), "NewProtocol_bin", i)
\* x.is_related(y)
IsRelated(i, j) == Commit(is_related(Cur, i, j), "is_related", i)
\* x = Packet(**kw)
ConstructKw(i, kw) == Free(i) /\ Commit(init_kwargs(Cur, i, kw), "init_kwargs", i)
\* x = Packet(buf)
ConstructBuf(i, buf) ==
    /\ Free(i)
    /\ LET s0 == [Cur EXCEPT !.o[i] = Blank]
       IN  Commit(init_buf(Cur, i, buf, unpack(s0, i, buf)), "init_buf", i)
\* x = Packet(buf) of a class whose unpack appends a dynamic field first
ConstructDyn(i, buf, format, value) ==
    /\ Free(i)
    /\ LET s0 == [Cur EXCEPT !.o[i] = Blank]
       IN  Commit(init_buf(Cur, i, buf, unpack_dyn(s0, i, buf, format, value)),
                  "init_dyn", i)
\* x = Packet(bytes of y), y a layer with a raw body that packs
Decode(i, j) ==
    /\ Free(i)
    /\ i # j
    /\ obj[j].bodytypename = NoneStr
    /\ encode(Cur, j).exc = ""
    /\ LET s0 == [Cur EXCEPT !.o[i] = Blank]
           buf == encode(Cur, j).out
       IN  Commit(init_buf(Cur, i, buf, unpack(s0, i, buf)), "decode", i)

Next ==
    \/ \E i \in Inst, k \in FieldNames, v \in WriteVals : SetField(i, k, v)
    \/ \E i \in Inst, b \in DataVals : SetData(i, b)
    \/ \E i \in Inst, c \in Callbacks \cup {None} : SetCallback(i, c)
    \/ \E i \in Inst, b \in BOOLEAN : SetAuActive(i, b)
    \/ \E i \in Inst, c \in Codes, v \in DynVals : AddHeaderfield(i, c, v)
    \/ \E ij \in Pairs : SetBodyhandler(ij[1], ij[2])
    \/ \E ij \in Pairs : Div(ij[1], ij[2])
    \/ \E i \in Inst, b \in DataVals : DivBytes(i, b)
    \/ \E i \in Inst : Bin(i)
    \/ \E i \in Inst : PackHdr(i)
    \/ \E i \in Inst, u \in BOOLEAN : NewProtocolBin(i, u)
    \/ \E i \in Inst, kw \in Kwargs : ConstructKw(i, kw)
    \/ \E i \in Inst, buf \in Bufs : ConstructBuf(i, buf)
    \/ \E i \in Inst, buf \in Bufs, c \in Codes, v \in DynVals : ConstructDyn(i, buf, c, v)
    \/ \E i \in Inst, j \in Inst : Decode(i, j)
    \/ \E i \in Inst, j \in Inst : IsRelated(i, j)

Spec == Init /\ [][Next]_vars

\* Field writes and header packing only.
NextFields ==
    \/ \E i \in Inst, k \in FieldNames, v \in WriteVals : SetField(i, k, v)
    \/ \E i \in Inst : PackHdr(i)

SpecFields == Init /\ [][NextFields]_vars

\* Writes, body attaches and serialization.
NextTrack ==
    \/ \E i \in Inst, k \in FieldNames, v \in WriteVals : SetField(i, k, v)
    \/ \E i \in Inst, b \in DataVals : SetData(i, b)
    \/ \E ij \in Pairs : SetBodyhandler(ij[1], ij[2])
    \/ \E ij \in Pairs : Div(ij[1], ij[2])
    \/ \E i \in Inst, b \in DataVals : DivBytes(i, b)
    \/ \E i \in Inst : Bin(i)
    \/ \E i \in Inst, kw \in Kwargs : ConstructKw(i, kw)

SpecTrack == Init /\ [][NextTrack]_vars

\* Writes, the auto-update switch and serialization of NewProtocol objects.
NextAU ==
    \/ \E i \in Inst, k \in FieldNames, v \in WriteVals : SetField(i, k, v)
    \/ \E i \in Inst, b \in BOOLEAN : SetAuActive(i, b)
    \/ \E ij \in Pairs : SetBodyhandler(ij[1], ij[2])
    \/ \E i \in Inst : Bin(i)
    \/ \E i \in Inst, u \in BOOLEAN : NewProtocolBin(i, u)

SpecAU == Init /\ [][NextAU]_vars

--------------------------------------------------------------------------
(* Properties.                                                            *)

\* The header fields of the instances: the names of __hdr_fields__.
HeaderFields == {hdr_fields[p] : p \in 1..Len(hdr_fields)}

\* C1.  Change tracking, set side: on an instance that reports unchanged, a
\* write through attribute assignment of any header field the instance holds,
\* and a body attach through _set_bodyhandler or layer1 / layer2, leaves
\* packet_changed true (also when the write goes on to raise in the format
\* update).
C1_WriteOrAttachMarksChanged ==
    [][\A i \in Inst :
         ~obj[i].packet_changed =>
           /\ \A k \in HeaderFields, v \in WriteVals :
                (obj[i].val[k] # Unset /\ SetField(i, k, v)) =>
                    obj'[i].packet_changed
           /\ \A j \in Inst :
                (<<i, j>> \in Pairs /\ (SetBodyhandler(i, j) \/ Div(i, j)))
                    => obj'[i].packet_changed]_vars

\* C1 witness: a body attach was the first operation on a freshly constructed
\* layer, which now reports changed.
C1_Witness ==
    /\ nops = 1
    /\ ret.op \in {"set_bodyhandler", "div"}
    /\ obj[ret.self].bodytypename = TypeName
    /\ obj[ret.self].packet_changed

\* C2.  Change tracking, clear side: a freshly constructed instance reports
\* unchanged, and after a serialize (bin()) that returns, the instance reports
\* unchanged.
C2_SerializeClearsChanged ==
    /\ nops = 0 => \A i \in Inst : ~obj[i].packet_changed
    /\ (ret.op = "init_kwargs" /\ ret.exc = "") => ~obj[ret.self].packet_changed
    /\ (ret.op = "bin" /\ ret.exc = "") => ~obj[ret.self].packet_changed

\* C3.  Round-trip: a decode, which completes, of the bytes a layer encodes to
\* gives back the value of every header field (None for the inactive ones) and
\* the raw body, and encoding the decoded instance reproduces the bytes.
C3_RoundTrip ==
    [][\A i \in Inst, j \in Inst :
         (Decode(i, j) /\ ret'.exc = "") =>
           /\ \A k \in HeaderFields : obj'[i].val[k] = obj[j].val[k]
           /\ obj'[i].data = obj[j].data
           /\ encode(Cur', i).exc = ""
           /\ encode(Cur', i).out = encode(Cur, j).out]_vars

\* The sum of the fixed widths of the schema's fields whose value is not None.
RECURSIVE ActiveWidthFrom(_, _)
ActiveWidthFrom(o, p) ==
    IF p > Len(Hdr) THEN 0
    ELSE (IF o.val[Hdr[p].name] # None THEN Width(Hdr[p].fmt) ELSE 0)
         + ActiveWidthFrom(o, p + 1)
ActiveWidth(o) == ActiveWidthFrom(o, 1)

\* C4.  Inactive-field invariant: after any sequence of field writes, the
\* cached header length of every instance is the sum of the widths of exactly
\* its fields that are not None, and a header that packs has that many bytes.
C4_HdrLenIsActiveWidth ==
    \A i \in Inst :
      /\ HdrLen(obj[i]) = ActiveWidth(obj[i])
      /\ pack_hdr(Cur, i).exc = "" => Len(pack_hdr(Cur, i).out) = ActiveWidth(obj[i])

\* C5.  A write of data on a layer that holds a body handler (bodytypename is
\* not None) raises Error and leaves data as it was.
C5_DataWriteRejected ==
    [][\A i \in Inst, b \in DataVals :
         (obj[i].bodytypename # NoneStr /\ obj[i].handler # 0 /\ SetData(i, b)) =>
           /\ ret'.exc = "Error"
           /\ obj'[i].data = obj[i].data]_vars

\* C6.  An attach preserves the callback: the callback of the body that was
\* attached before or, on a layer without a body, the callback registered on
\* the body being attached, is the callback of that body after the attach.
C6_AttachKeepsCallback ==
    [][\A ij \in Pairs :
         LET i == ij[1]
             j == ij[2]
             kept == IF obj[i].handler # 0 THEN obj[obj[i].handler].callback
                     ELSE obj[j].callback
         IN  ((SetBodyhandler(i, j) \/ Div(i, j)) /\ kept # None) =>
               obj'[j].callback = kept]_vars

\* C7.  Concatenation: after a layer1 / layer2 that completes on a layer1 with a
\* raw body whose header packs, layer2 is the body of layer1 and layer1.bin()
\* is layer1's packed header followed by layer2.bin(); layer1 / bytes raises
\* Error and changes nothing.
C7_Concatenation ==
    [][/\ \A ij \in Pairs :
            LET i == ij[1]
                j == ij[2]
            IN  (/\ obj[i].bodytypename = NoneStr
                 /\ Div(i, j)
                 /\ ret'.exc = ""
                 /\ pack_hdr(Cur', i).exc = "") =>
                  /\ obj'[i].handler = j
                  /\ bin(Cur', i, FALSE).exc = ""
                  /\ bin(Cur', i, FALSE).out
                       = pack_hdr(Cur', i).out \o bin(Cur', j, FALSE).out
       /\ \A i \in Inst, b \in DataVals :
            DivBytes(i, b) => (ret'.exc = "Error" /\ obj' = obj)]_vars

\* C8.  _add_headerfield on one instance leaves the shared tables of the type
\* and every other instance's field list, header length and packed header as
\* they were.
C8_AddHeaderfieldIsLocal ==
    [][\A i \in Inst, c \in Codes, v \in DynVals :
         AddHeaderfield(i, c, v) =>
           /\ hdr_fields' = hdr_fields
           /\ hdr_fmt' = hdr_fmt
           /\ hdr_defaults' = hdr_defaults
           /\ \A j \in Inst \ {i} :
                /\ FieldValues(Cur', j) = FieldValues(Cur, j)
                /\ HdrLen(obj'[j]) = HdrLen(obj[j])
                /\ pack_hdr(Cur', j).exc = pack_hdr(Cur, j).exc
                /\ pack_hdr(Cur', j).out = pack_hdr(Cur, j).out]_vars

\* What C9 says of a constructor call on a buffer, need being the fixed length
\* of the fields active at the decode.
C9_Outcome(buf, need) ==
    /\ Len(buf) < need => ret'.exc = "NeedData"
    /\ Len(buf) >= need => ret'.exc \in {"", "UnpackError"}

\* C9.  Packet(buf) on a buffer shorter than the active fixed-header length,
\* which counts the fields active by default and an appended dynamic field
\* that is not None, raises NeedData; on a buffer at least that long it returns
\* or raises UnpackError, and nothing else.
C9_ConstructorErrors ==
    [][\A i \in Inst, buf \in Bufs :
         /\ ConstructBuf(i, buf) => C9_Outcome(buf, ClsLen)
         /\ \A c \in Codes, v \in DynVals :
              ConstructDyn(i, buf, c, v) =>
                C9_Outcome(buf, ClsLen + (IF v # None THEN Width(c) ELSE 0))]_vars

\* The name i is bound to a new instance by this step.
Rebound(i) ==
    ret'.self = i /\ ret'.op \in {"init_kwargs", "init_buf", "init_dyn", "decode"}

C11_IsRelated ==
    [][\A i \in Inst, j \in Inst :
         IsRelated(i, j) =>
           IF obj[i].bodytypename = NoneStr \/ obj[j].bodytypename = NoneStr
           THEN ret'.exc = "" /\ ret'.out = <<TRUE>>
           ELSE /\ obj[i].handler # 0
                /\ obj[j].handler # 0
                /\ ret'.exc = is_related(Cur, obj[i].handler, obj[j].handler).exc
                /\ ret'.out = is_related(Cur, obj[i].handler, obj[j].handler).out
                /\ ret'.exc = ""]_vars

====
